---- MODULE Spec2Model ----
(***************************************************************************)
(* cli-bridge: one POST /chat session of the HTTP-to-CLI bridge.           *)
(*                                                                         *)
(* The model follows src/unnamed/part_000 (the Router build, which has the *)
(* plain-text mode); src/index.mjs has the same handlers without the       *)
(* isPlainText branches.                                                   *)
(*                                                                         *)
(* Subprocess output is a sequence of bytes.  A byte is written as a       *)
(* string.  "0xC3" "0xA9" are the two bytes of the UTF-8 encoding of       *)
(* U+00E9; every other byte is ASCII and decodes to itself.  Some ASCII    *)
(* runs of a JSON text are abbreviated by one symbol (see JSONparse).      *)
(***************************************************************************)
EXTENDS Integers, Sequences, FiniteSets, TLC

\* ------------------------------------------------------------------ bounds

\* number of writes the subprocess makes to its stdout
MaxWrites == 2

\* ------------------------------------------------------- strings and bytes

LF == "\n"
SP == " "
Lead == "0xC3"
Cont == "0xA9"
EAcute == "U+00E9"
Replacement == "U+FFFD"

\* String.prototype.trim strips these from both ends
WhiteSpace == {SP, LF}

\* Buffer.prototype.toString(): UTF-8 decoding of ONE chunk.  A lead byte
\* followed in the same chunk by its continuation byte is one character; a
\* lead byte or a continuation byte on its own becomes U+FFFD.
RECURSIVE toString(_)
toString(data) ==
  IF data = <<>> THEN <<>>
  ELSE IF data[1] = Lead /\ Len(data) >= 2 /\ data[2] = Cont
       THEN <<EAcute>> \o toString(SubSeq(data, 3, Len(data)))
  ELSE IF data[1] \in {Lead, Cont}
       THEN <<Replacement>> \o toString(Tail(data))
  ELSE <<data[1]>> \o toString(Tail(data))

\* String.prototype.trim
RECURSIVE trimStart(_)
trimStart(s) ==
  IF s # <<>> /\ s[1] \in WhiteSpace THEN trimStart(Tail(s)) ELSE s

RECURSIVE trimEnd(_)
trimEnd(s) ==
  IF s # <<>> /\ s[Len(s)] \in WhiteSpace
  THEN trimEnd(SubSeq(s, 1, Len(s) - 1)) ELSE s

trim(s) == trimEnd(trimStart(s))

\* String.prototype.startsWith, for a one-character prefix
startsWith(s, c) == s # <<>> /\ s[1] = c

\* String.prototype.split('\n'): the segments between line feeds, always at
\* least one
RECURSIVE split(_)
split(s) ==
  IF \A i \in 1..Len(s) : s[i] # LF THEN <<s>>
  ELSE LET i == CHOOSE k \in 1..Len(s) :
                  s[k] = LF /\ \A j \in 1..(k - 1) : s[j] # LF
       IN <<SubSeq(s, 1, i - 1)>> \o split(SubSeq(s, i + 1, Len(s)))

\* ------------------------------------------------------------- JSON values

Undefined == [j |-> "undefined"]
Null == [j |-> "null"]
Num == [j |-> "number"]
Str(s) == [j |-> "string", v |-> s]
Arr(a) == [j |-> "array", v |-> a]
\* an object: the members the parsers read, Undefined when absent
NoMembers ==
  [type |-> Undefined, message |-> Undefined, content |-> Undefined,
   delta |-> Undefined, item |-> Undefined, text |-> Undefined]
Obj(members) == [j |-> "object", v |-> members]

\* x.f : a TypeError on null and undefined, undefined on other primitives
propThrows(x) == x.j \in {"null", "undefined"}
prop(x, f) == IF x.j = "object" THEN x.v[f] ELSE Undefined
\* x?.f
optProp(x, f) == IF propThrows(x) THEN Undefined ELSE prop(x, f)

truthy(x) ==
  CASE x.j \in {"undefined", "null"} -> FALSE
    [] x.j = "string" -> x.v # <<>>
    [] OTHER -> TRUE

\* for (const block of x): a TypeError unless x is an array or a string
iterable(x) == x.j \in {"array", "string"}
elements(x) ==
  IF x.j = "array" THEN x.v ELSE [i \in 1..Len(x.v) |-> Str(<<x.v[i]>>)]

\* The JSON texts of the model.  "null" and "7" are the texts null and 7;
\* "{" "}" is the empty object; "{" tag text "}" is an object whose shape the
\* tag names and whose text member is the characters between tag and "}":
\*   A  {"type":"assistant","message":{"content":[{"type":"text","text":T}]}}
\*   P  {"type":"assistant","message":{"content":[{"type":"text","text":T},null]}}
\*   D  {"type":"content_block_delta","delta":{"text":T}}
\*   I  {"type":"item.completed","item":{"type":"agent_message","text":T}}
\*   R  {"type":"result","text":T}
Tags == {"A", "P", "D", "I", "R"}
TextChars == {"h", EAcute, Replacement}

textBlock(t) ==
  Obj([NoMembers EXCEPT !.type = Str(<<"text">>), !.text = Str(t)])

document(tag, t) ==
  CASE tag = "A" ->
         Obj([NoMembers EXCEPT
                !.type = Str(<<"assistant">>),
                !.message = Obj([NoMembers EXCEPT
                                   !.content = Arr(<<textBlock(t)>>)])])
    [] tag = "P" ->
         Obj([NoMembers EXCEPT
                !.type = Str(<<"assistant">>),
                !.message = Obj([NoMembers EXCEPT
                                   !.content = Arr(<<textBlock(t), Null>>)])])
    [] tag = "D" ->
         Obj([NoMembers EXCEPT
                !.type = Str(<<"content_block_delta">>),
                !.delta = Obj([NoMembers EXCEPT !.text = Str(t)])])
    [] tag = "I" ->
         Obj([NoMembers EXCEPT
                !.type = Str(<<"item.completed">>),
                !.item = Obj([NoMembers EXCEPT
                                !.type = Str(<<"agent_message">>),
                                !.text = Str(t)])])
    [] OTHER ->
         Obj([NoMembers EXCEPT !.type = Str(<<"result">>), !.text = Str(t)])

\* JSON.parse of a text without white space around it; anything that is not
\* one of the texts above is a SyntaxError
parseTrimmed(t) ==
  IF t = <<"null">> THEN [ok |-> TRUE, value |-> Null]
  ELSE IF t = <<"7">> THEN [ok |-> TRUE, value |-> Num]
  ELSE IF t = <<"{", "}">> THEN [ok |-> TRUE, value |-> Obj(NoMembers)]
  ELSE IF /\ Len(t) >= 3
          /\ t[1] = "{"
          /\ t[Len(t)] = "}"
          /\ t[2] \in Tags
          /\ \A i \in 3..(Len(t) - 1) : t[i] \in TextChars
       THEN [ok |-> TRUE, value |-> document(t[2], SubSeq(t, 3, Len(t) - 1))]
  ELSE [ok |-> FALSE, value |-> Undefined]

\* JSON.parse(line): white space around the text is allowed
JSONparse(line) == parseTrimmed(trim(line))

\* ---------------------------------------------------------------- registry

\* a JS string is a sequence of pieces; "" || x is x
or(a, b) == IF a # "" THEN a ELSE b

\* CLI_TOOLS.  parseStream names the entry's parser, "null" for plain text.
CLI_TOOLS ==
  [claude |-> [command |-> "claude", inputMode |-> "stdin",
               embedSystemPrompt |-> FALSE, parseStream |-> "claude"],
   codex  |-> [command |-> "codex", inputMode |-> "stdin",
               embedSystemPrompt |-> TRUE, parseStream |-> "codex"],
   gemini |-> [command |-> "gemini", inputMode |-> "arg",
               embedSystemPrompt |-> TRUE, parseStream |-> "null"]]

\* Object.keys(CLI_TOOLS)
ObjectKeys == <<"claude", "codex", "gemini">>

\* CLI_TOOLS is an object literal: CLI_TOOLS[name] also finds the members it
\* inherits from Object.prototype, which are truthy and are no tool
ObjectPrototype == {"constructor", "toString"}

\* the value of CLI_TOOLS[providerName]: "tool", "inherited" or "undefined"
lookup(providerName) ==
  IF providerName \in DOMAIN CLI_TOOLS THEN "tool"
  ELSE IF providerName \in ObjectPrototype THEN "inherited"
  ELSE "undefined"

\* a registry whose codex entry also passes the system prompt as a flag
buildArgsFlagged(providerName, model, systemPrompt) ==
  CASE providerName = "claude" ->
         <<<<"-p">>, <<"--output-format">>, <<"stream-json">>, <<"--verbose">>>>
         \o (IF model # "" THEN <<<<"--model">>, <<model>>>> ELSE <<>>)
         \o (IF systemPrompt # ""
             THEN <<<<"--system-prompt">>, <<systemPrompt>>>> ELSE <<>>)
    [] providerName = "codex" ->
         <<<<"exec">>, <<"--json">>>>
         \o (IF model # "" THEN <<<<"--model">>, <<model>>>> ELSE <<>>)
         \o (IF systemPrompt # ""
             THEN <<<<"--instructions">>, <<systemPrompt>>>> ELSE <<>>)
    [] OTHER ->
         (IF model # "" THEN <<<<"--model">>, <<model>>>> ELSE <<>>)

\* buildArgs(model, systemPrompt) of each entry; every argument is a string,
\* a sequence of pieces
buildArgs(providerName, model, systemPrompt) ==
  CASE providerName = "claude" ->
         <<<<"-p">>, <<"--output-format">>, <<"stream-json">>, <<"--verbose">>>>
         \o (IF model # "" THEN <<<<"--model">>, <<model>>>> ELSE <<>>)
         \o (IF systemPrompt # ""
             THEN <<<<"--system-prompt">>, <<systemPrompt>>>> ELSE <<>>)
    [] providerName = "codex" ->
         <<<<"exec">>, <<"--json">>>>
         \o (IF model # "" THEN <<<<"--model">>, <<model>>>> ELSE <<>>)
    [] OTHER ->
         (IF model # "" THEN <<<<"--model">>, <<model>>>> ELSE <<>>)

\* ----------------------------------------------------------------- parsers

\* the result of one parseStream call: the texts passed to emit, in order,
\* and whether the call threw
Threw(emits) == [threw |-> TRUE, emits |-> emits]
Returned(emits) == [threw |-> FALSE, emits |-> emits]

strEq(x, s) == x.j = "string" /\ x.v = <<s>>

\* for (const block of content) if (block.type === 'text' && block.text) ...
RECURSIVE forBlocks(_, _)
forBlocks(blocks, emits) ==
  IF blocks = <<>> THEN Returned(emits)
  ELSE LET block == blocks[1] IN
       IF propThrows(block) THEN Threw(emits)
       ELSE IF strEq(prop(block, "type"), "text") /\ truthy(prop(block, "text"))
            THEN forBlocks(Tail(blocks), Append(emits, prop(block, "text").v))
       ELSE forBlocks(Tail(blocks), emits)

\* for (const block of json.message.content) ...
forContent(content) ==
  IF iterable(content) THEN forBlocks(elements(content), <<>>)
  ELSE Threw(<<>>)

\* CLI_TOOLS.claude.parseStream after `const json = JSON.parse(line)`
claudeShapes(json) ==
  IF propThrows(json) THEN Threw(<<>>)
  ELSE IF /\ strEq(prop(json, "type"), "assistant")
          /\ truthy(optProp(prop(json, "message"), "content"))
       THEN forContent(prop(prop(json, "message"), "content"))
  ELSE IF /\ strEq(prop(json, "type"), "content_block_delta")
          /\ truthy(optProp(prop(json, "delta"), "text"))
       THEN Returned(<<prop(prop(json, "delta"), "text").v>>)
  ELSE Returned(<<>>)

\* CLI_TOOLS.codex.parseStream after `const json = JSON.parse(line)`
codexShapes(json) ==
  IF propThrows(json) THEN Threw(<<>>)
  ELSE IF /\ strEq(prop(json, "type"), "item.completed")
          /\ strEq(optProp(prop(json, "item"), "type"), "agent_message")
          /\ truthy(prop(prop(json, "item"), "text"))
       THEN Returned(<<prop(prop(json, "item"), "text").v>>)
  ELSE Returned(<<>>)

\* the parser named `parser` on the result of JSON.parse: a SyntaxError
\* leaves the parser at once
extract(parser, p) ==
  IF ~p.ok THEN Threw(<<>>)
  ELSE IF parser = "claude" THEN claudeShapes(p.value)
  ELSE codexShapes(p.value)

\* cliTool.parseStream(line, emit)
parseStream(cliTool, line) == extract(cliTool.parseStream, JSONparse(line))

\* ---------------------------------------------------------- server-sent events

\* res.write(`data: ${JSON.stringify({ text })}\n\n`)
Text(text) == [kind |-> "text", body |-> text]
\* res.write(`data: ${JSON.stringify({ error: `Failed to start ...` })}\n\n`)
Error(name) ==
  [kind |-> "error",
   body |-> <<"Failed to start ", name, " CLI. Is it installed?">>]
\* res.write('data: [DONE]\n\n')
Done == [kind |-> "done", body |-> <<"[DONE]">>]

Texts(emits) == [i \in 1..Len(emits) |-> Text(emits[i])]

\* ---------------------------------------------------------------- handlers

isPlainText(cliTool) == cliTool.parseStream = "null"

\* the catch branch of the stdout handler: the events it writes for a line
\* on which parseStream threw
forward(trimmed) ==
  IF trimmed # <<>> /\ ~startsWith(trimmed, "{") /\ ~startsWith(trimmed, "[")
  THEN <<Text(trimmed \o <<LF>>)>>
  ELSE <<>>

\* a catch branch that forwards the line as it came
catchUntrimmed(line) == forward(line)

catchLine(line) == forward(trim(line))

\* one iteration of `for (const line of lines)`.  acc is the handler's view of
\* the session: textSent, the events written so far by this invocation (out)
\* and one record per line that reached the parser (log)
tryLine(acc, line, threw, parsed, caught) ==
  [textSent |-> acc.textSent \/ parsed # <<>> \/ caught # <<>>,
   out |-> acc.out \o parsed \o caught,
   log |-> Append(acc.log,
                  [line |-> line, threw |-> threw, parsed |-> parsed,
                   caught |-> caught, before |-> acc.textSent])]

parsedLine(acc, line, r) ==
  tryLine(acc, line, r.threw, Texts(r.emits),
          IF r.threw THEN catchLine(line) ELSE <<>>)

forLine(cliTool, acc, line) ==
  IF trim(line) = <<>> THEN acc
  ELSE parsedLine(acc, line, parseStream(cliTool, line))

RECURSIVE forLines(_, _, _)
forLines(cliTool, acc, lines) ==
  IF lines = <<>> THEN acc
  ELSE forLines(cliTool, forLine(cliTool, acc, lines[1]), Tail(lines))

\* a plain-text branch that forgets `textSent = true`
plainDataUnflagged(buf, sent, text) ==
  [buffer |-> buf,
   textSent |-> sent,
   out |-> IF text # <<>> THEN <<Text(text)>> ELSE <<>>,
   log |-> <<>>]

\* proc.stdout.on('data'): from the session's buffer and textSent and one
\* chunk, the new buffer and textSent, the events written and the line log
plainData(buf, sent, text) ==
  [buffer |-> buf,
   textSent |-> sent \/ text # <<>>,
   out |-> IF text # <<>> THEN <<Text(text)>> ELSE <<>>,
   log |-> <<>>]

\* what is left of the handler after the loop
afterLines(rest, acc) ==
  [buffer |-> rest, textSent |-> acc.textSent, out |-> acc.out,
   log |-> acc.log]

\* a handler that does not pop: the last segment is kept and dispatched too
jsonDataNoPop(cliTool, sent, all) ==
  afterLines(all[Len(all)],
             forLines(cliTool,
                      [textSent |-> sent, out |-> <<>>, log |-> <<>>], all))

\* buffer = lines.pop() || ''; for (const line of lines) ...
jsonData(cliTool, sent, all) ==
  afterLines(all[Len(all)],
             forLines(cliTool,
                      [textSent |-> sent, out |-> <<>>, log |-> <<>>],
                      SubSeq(all, 1, Len(all) - 1)))

onStdoutData(cliTool, buf, sent, data) ==
  IF isPlainText(cliTool)
  THEN plainData(buf, sent, toString(data))
  ELSE jsonData(cliTool, sent, split(buf \o toString(data)))

\* the flush of proc.on('close'): the events written before the marker, and
\* textSent
\* the try and catch of the flush, r being what parseStream(buffer) did
\* a flush that forwards the raw residual whenever the parse threw
flushAlwaysRaw(buf, sent, r) ==
  [textSent |-> sent \/ r.emits # <<>>,
   out |-> Texts(r.emits)
           \o (IF r.threw THEN <<Text(trim(buf))>> ELSE <<>>)]

flushParsed(buf, sent, r) ==
  [textSent |-> sent \/ r.emits # <<>>,
   out |-> Texts(r.emits)
           \o (IF r.threw /\ ~(sent \/ r.emits # <<>>)
               THEN <<Text(trim(buf))>> ELSE <<>>)]

flush(cliTool, buf, sent) ==
  IF trim(buf) = <<>> THEN [textSent |-> sent, out |-> <<>>]
  ELSE IF isPlainText(cliTool)
       THEN [textSent |-> sent, out |-> <<Text(trim(buf))>>]
  ELSE flushParsed(buf, sent, parseStream(cliTool, buf))

\* a 'close' handler that reports a session without text as an error
markedOrError(f) ==
  [textSent |-> f.textSent,
   out |-> f.out \o (IF f.textSent THEN <<>> ELSE <<Error("")>>) \o <<Done>>]

\* a 'close' handler that ends the response without the marker
unmarked(f) == [textSent |-> f.textSent, out |-> f.out]

\* the flush, then res.write('data: [DONE]\n\n')
marked(f) == [textSent |-> f.textSent, out |-> f.out \o <<Done>>]

\* proc.on('close'): everything it writes
onClose(cliTool, buf, sent) == marked(flush(cliTool, buf, sent))

\* an 'error' handler that ends the response without the marker
onErrorNoMarker(name) == <<Error(name)>>

\* proc.on('error'): everything it writes
onError(name) == <<Error(name), Done>>

\* proc.stderr.on('data'): what it logs
logged(name, msg) ==
  IF msg # <<>> THEN {<<"stderr", name>> \o msg} ELSE {}

onStderrData(name, data) == logged(name, trim(toString(data)))

\* ------------------------------------------------------------------ request

\* the prompt: "<Label>: <content>" per message, joined by a blank line
label(m) == IF m.role = "user" THEN "User" ELSE "Assistant"

RECURSIVE join(_)
join(messages) ==
  IF messages = <<>> THEN <<>>
  ELSE <<label(messages[1]), ": ", messages[1].content>>
       \o (IF Len(messages) > 1 THEN <<"\n\n">> ELSE <<>>)
       \o join(Tail(messages))

buildPrompt(embedSystemPrompt, systemPrompt, messages) ==
  IF embedSystemPrompt /\ systemPrompt # ""
  THEN <<"System instructions: ", systemPrompt, "\n\n">> \o join(messages)
  ELSE join(messages)

\* req.body.messages: absent, a value that is no array, or an array
NoMessages == [truthy |-> FALSE, isArray |-> FALSE, items |-> <<>>]
NotAnArray == [truthy |-> TRUE, isArray |-> FALSE, items |-> <<>>]
Array(a) == [truthy |-> TRUE, isArray |-> TRUE, items |-> a]

Conversation ==
  <<[role |-> "assistant", content |-> "Hello"],
    [role |-> "user", content |-> "Hi"]>>

\* the request bodies of the model; "" is an absent (or empty) string.
\* Every provider and messages value without model and system prompt, and
\* every tool with both.
Bodies ==
  [provider : {"", "claude", "codex", "gemini", "gpt", "constructor"},
   tool : {"", "codex"},
   model : {""},
   systemPrompt : {""},
   messages : {NoMessages, NotAnArray, Array(<<>>), Array(Conversation)}]
  \cup
  [provider : {"claude", "codex", "gemini"},
   tool : {""},
   model : {"sonnet"},
   systemPrompt : {"Be brief"},
   messages : {Array(Conversation)}]

\* the lines a tool writes to stdout, without their line feed: claude and
\* codex write JSON lines (and now and then something else), gemini text
Outputs(name) ==
  CASE name = "claude" ->
         {<<"{", "A", Lead, Cont, "}">>,
          <<"{", "P", "h", "}">>,
          <<"{", "R", "h", "}">>,
          <<SP, "null">>,
          <<SP>>}
    [] name = "codex" ->
         {<<"{", "I", Lead, Cont, "}">>,
          <<"{", "A", "h", "}">>,
          <<"[", "x">>,
          <<SP, "w">>}
    [] OTHER ->
         {<<"h">>, <<Lead, Cont>>}

\* what one stderr chunk holds
Diagnostics == {<<SP, LF>>, <<"w", LF>>}

\* exit codes of a process that ran
ExitCodes == {"0", "1"}
\* the code of the 'close' event after a failed spawn (the errno)
SpawnErrno == "-2"

\* -------------------------------------------------------------------- state

VARIABLES
  phase,         \* "idle", then what api.post('/chat') did with the request:
                 \* "rejected" (400), "threw" or "streaming"
  providerName,  \* provider || tool || 'claude'
  status,        \* the HTTP status sent, 0 while none
  headers,       \* the response headers set
  flushed,       \* res.flushHeaders() was called
  json,          \* the body sent by res.json(), <<>> while none
  prompt,        \* the prompt built for the tool
  argv,          \* the arguments spawn() was called with
  stdin,         \* proc.stdin: [writes, ended]
  proc,          \* "none", "failed" (spawn failed, 'error' not yet emitted),
                 \* "errored", "running", "exited", "closed"
  handle,        \* proc._handle is set
  killed,        \* proc.killed
  kills,         \* calls of proc.kill('SIGTERM')
  sigterms,      \* SIGTERMs the subprocess was sent
  stream,        \* every byte the subprocess wrote to stdout
  delivered,     \* how many of them the 'data' events have delivered
  writes,        \* how many writes the subprocess made
  eof,           \* the subprocess writes no more
  buffer,        \* let buffer
  textSent,      \* let textSent
  calls,         \* every res.write() call, in order
  wire,          \* the writes the response accepted (before end and close)
  ended,         \* res.end() was called
  closed,        \* the response stream emitted 'close'
  console,       \* the lines console.error has printed
  uncaught,      \* the response emitted 'error', which has no listener: the
                 \* server process throws
  sessions,      \* concurrent requests: for each, what api.post('/chat') and
                 \* its handlers did for it
  env            \* the bindings of `let buffer` and `let textSent` that the
                 \* invocations of the request handler created

vars ==
  <<phase, providerName, status, headers, flushed, json, prompt, argv, stdin,
    proc, handle, killed, kills, sigterms, stream, delivered, writes, eof,
    buffer, textSent, calls, wire, ended, closed, console, uncaught,
    sessions, env>>

request == <<phase, providerName, status, headers, flushed, json, prompt, argv, stdin>>
process == <<proc, handle, killed, kills, sigterms>>
pipe == <<stream, delivered, writes, eof>>
response == <<calls, wire, ended, closed>>
concurrent == <<sessions, env>>

\* the requests in flight at the same time
Requests == {"first", "second"}

\* a request before api.post('/chat') ran for it
NoSession ==
  [proc |-> "none", providerName |-> "", argv |-> <<>>, stream |-> <<>>,
   chunks |-> <<>>, calls |-> <<>>]
\* no binding yet
NoScope == [buffer |-> <<>>, textSent |-> FALSE]

Init ==
  /\ phase = "idle"
  /\ providerName = ""
  /\ status = 0
  /\ headers = {}
  /\ flushed = FALSE
  /\ json = <<>>
  /\ prompt = <<>>
  /\ argv = <<>>
  /\ stdin = [writes |-> <<>>, ended |-> FALSE]
  /\ proc = "none"
  /\ handle = FALSE
  /\ killed = FALSE
  /\ kills = 0
  /\ sigterms = 0
  /\ stream = <<>>
  /\ delivered = 0
  /\ writes = 0
  /\ eof = FALSE
  /\ buffer = <<>>
  /\ textSent = FALSE
  /\ calls = <<>>
  /\ wire = <<>>
  /\ ended = FALSE
  /\ closed = FALSE
  /\ console = {}
  /\ uncaught = FALSE
  /\ sessions = [q \in Requests |-> NoSession]
  /\ env = [q \in Requests |-> NoScope]

cliTool == CLI_TOOLS[providerName]

\* a write the response accepts reaches the wire; one after res.end() or
\* after the stream closed does not
accepted(isEnded, isClosed, events) ==
  IF isEnded \/ isClosed THEN <<>> ELSE events

\* res.write() on a response that was ended and is not yet destroyed fails
\* with ERR_STREAM_WRITE_AFTER_END, which the response emits as 'error'; on a
\* destroyed response (the client went away, or the ended response closed)
\* the write is dropped
writeAfterEnd(isEnded, isClosed, events) ==
  isEnded /\ ~isClosed /\ events # <<>>

EventStream ==
  {<<"Content-Type", "text/event-stream">>,
   <<"Cache-Control", "no-cache">>,
   <<"Connection", "keep-alive">>}

\* ------------------------------------------------------------------ actions

\* the checks api.post('/chat') makes before it streams: what it answers
validate(body) ==
  LET name == or(body.provider, or(body.tool, "claude"))
      messages == body.messages
  IN
  IF ~messages.truthy \/ ~messages.isArray \/ Len(messages.items) = 0
  THEN "messages array required"
  ELSE IF lookup(name) = "undefined" THEN "Unknown provider"
  ELSE "stream"

\* const args = cliTool.buildArgs(model, systemPrompt);
\* if (cliTool.inputMode === 'arg') args.push('-p', prompt);
spawnArgs(tool, args, text) ==
  IF tool.inputMode = "arg" THEN args \o <<<<"-p">>, text>> ELSE args

\* a handler that writes the prompt to stdin whatever the input mode
stdinAlways(tool, text, before) == [writes |-> <<text>>, ended |-> TRUE]

\* if (cliTool.inputMode === 'stdin') { proc.stdin.write(prompt); proc.stdin.end(); }
stdinAfter(tool, text, before) ==
  IF tool.inputMode = "stdin"
  THEN [writes |-> Append(before.writes, text), ended |-> TRUE]
  ELSE before

\* api.post('/chat', (req, res) => ...), up to the registration of the
\* handlers.  launches: whether the executable can be launched.
Post(body, launches) ==
  LET name == or(body.provider, or(body.tool, "claude"))
      answer == validate(body)
  IN
  /\ phase = "idle"
  /\ providerName' = name
  /\ IF answer = "messages array required"
     THEN /\ phase' = "rejected"
          /\ status' = 400
          /\ json' = [error |-> <<"messages array required">>,
                      available |-> <<>>]
          /\ UNCHANGED <<headers, flushed, prompt, argv, stdin, proc, handle>>
     ELSE IF answer = "Unknown provider"
     THEN /\ phase' = "rejected"
          /\ status' = 400
          /\ json' = [error |-> <<"Unknown provider: ", name>>,
                      available |-> ObjectKeys]
          /\ UNCHANGED <<headers, flushed, prompt, argv, stdin, proc, handle>>
     ELSE IF lookup(name) = "inherited"
     THEN \* cliTool is a member of Object.prototype: embedSystemPrompt is
          \* undefined, the headers go out, cliTool.buildArgs is not a function
          /\ phase' = "threw"
          /\ prompt' = buildPrompt(FALSE, body.systemPrompt, body.messages.items)
          /\ headers' = EventStream
          /\ flushed' = TRUE
          /\ status' = 200
          /\ UNCHANGED <<json, argv, stdin, proc, handle>>
     ELSE LET tool == CLI_TOOLS[name]
              text == buildPrompt(tool.embedSystemPrompt, body.systemPrompt,
                                  body.messages.items)
              args == buildArgs(name, body.model, body.systemPrompt)
          IN
          /\ phase' = "streaming"
          /\ prompt' = text
          /\ headers' = EventStream
          /\ flushed' = TRUE
          /\ status' = 200
          /\ argv' = spawnArgs(tool, args, text)
          /\ stdin' = stdinAfter(tool, text, stdin)
          /\ proc' = IF launches THEN "running" ELSE "failed"
          /\ handle' = TRUE
          /\ UNCHANGED json
  /\ UNCHANGED <<concurrent, uncaught, killed, kills, sigterms, pipe, buffer,
                 textSent, response, console>>

\* the subprocess writes a line to its stdout; only its last line can lack
\* the line feed
ProcWrite(bytes, newline) ==
  /\ proc = "running"
  /\ writes < MaxWrites
  /\ ~eof
  /\ stream' = stream \o bytes \o (IF newline THEN <<LF>> ELSE <<>>)
  /\ writes' = writes + 1
  /\ eof' = ~newline
  /\ UNCHANGED <<concurrent, uncaught, request, process, delivered, buffer,
                 textSent, response, console>>

\* proc.stdout 'data': the next n bytes of the pipe arrive as one chunk
StdoutData(n) ==
  /\ proc \in {"running", "exited"}
  /\ delivered + n <= Len(stream)
  /\ \E r \in {onStdoutData(cliTool, buffer, textSent,
                             SubSeq(stream, delivered + 1, delivered + n))} :
        /\ buffer' = r.buffer
        /\ textSent' = r.textSent
        /\ calls' = calls \o r.out
        /\ wire' = wire \o accepted(ended, closed, r.out)
        /\ uncaught' = (uncaught \/ writeAfterEnd(ended, closed, r.out))
  /\ delivered' = delivered + n
  /\ UNCHANGED <<concurrent, request, process, stream, writes, eof, ended,
                 closed, console>>

\* a stderr handler that also forwards the diagnostic to the client
StderrForwarded(data) ==
  /\ proc \in {"running", "exited"}
  /\ console' = console \cup onStderrData(providerName, data)
  /\ calls' = Append(calls, Text(toString(data)))
  /\ wire' = wire \o accepted(ended, closed, <<Text(toString(data))>>)
  /\ textSent' = TRUE
  /\ UNCHANGED <<concurrent, uncaught, request, process, pipe, buffer, ended,
                 closed>>

\* proc.stderr 'data'
StderrData(data) ==
  /\ proc \in {"running", "exited"}
  /\ console' = console \cup onStderrData(providerName, data)
  /\ UNCHANGED <<concurrent, uncaught, request, process, pipe, buffer,
                 textSent, response>>

\* the subprocess ends (by itself or by a signal); child_process drops the
\* handle and emits 'exit', which nothing listens to
ProcExit ==
  /\ proc = "running"
  /\ proc' = "exited"
  /\ handle' = FALSE
  /\ UNCHANGED <<concurrent, uncaught, request, killed, kills, sigterms,
                 pipe, buffer, textSent, response, console>>

\* proc 'close': after the process ended (or failed to start) and its stdio
\* streams closed, so after the last 'data'.  code is the exit code, the
\* errno after a failed spawn.
ProcClose(code) ==
  /\ proc \in {"exited", "errored"}
  /\ delivered = Len(stream)
  /\ (proc = "errored") = (code = SpawnErrno)
  /\ \E r \in {onClose(cliTool, buffer, textSent)} :
        /\ textSent' = r.textSent
        /\ calls' = calls \o r.out
        /\ wire' = wire \o accepted(ended, closed, r.out)
        /\ uncaught' = (uncaught \/ writeAfterEnd(ended, closed, r.out))
  /\ ended' = TRUE
  /\ console' = IF code # "0"
                THEN console \cup {<<"exited with code", providerName, code>>}
                ELSE console
  /\ proc' = "closed"
  /\ UNCHANGED <<concurrent, request, handle, killed, kills, sigterms, pipe,
                 buffer, closed>>

\* proc 'error': the spawn failed.  child_process emits it on the next tick
\* after spawn(), before any I/O event of the session.
ProcError ==
  /\ proc = "failed"
  /\ console' = console \cup {<<"spawn error", providerName>>}
  /\ calls' = calls \o onError(providerName)
  /\ wire' = wire \o accepted(ended, closed, onError(providerName))
  /\ uncaught' = (uncaught \/ writeAfterEnd(ended, closed, onError(providerName)))
  /\ ended' = TRUE
  /\ proc' = "errored"
  /\ handle' = FALSE
  /\ UNCHANGED <<concurrent, request, killed, kills, sigterms, pipe, buffer,
                 textSent, closed>>

\* a kill that sends nothing (the guard `!proc.killed` inverted)
killNothing(hasHandle, wasKilled, sent) ==
  [killed |-> wasKilled, sigterms |-> sent]

\* a kill that signals the pid whether or not the handle is still there
killAlways(hasHandle, wasKilled, sent) ==
  [killed |-> TRUE, sigterms |-> sent + 1]

\* proc.kill('SIGTERM'): with a handle the signal is sent and proc.killed
\* set; without one nothing happens
kill(hasHandle, wasKilled, sent) ==
  IF hasHandle THEN [killed |-> TRUE, sigterms |-> sent + 1]
  ELSE [killed |-> wasKilled, sigterms |-> sent]

\* res 'close': the client went away, or the response was ended and is done
ResClose ==
  /\ phase = "streaming"
  /\ proc # "failed"
  /\ ~closed
  /\ ~uncaught
  /\ closed' = TRUE
  /\ IF ~killed
     THEN \E k \in {kill(handle, killed, sigterms)} :
            /\ kills' = kills + 1
            /\ killed' = k.killed
            /\ sigterms' = k.sigterms
     ELSE UNCHANGED <<kills, killed, sigterms>>
  /\ UNCHANGED <<concurrent, uncaught, request, proc, handle, pipe, buffer,
                 textSent, calls, wire, ended, console>>

Next ==
  \/ \E body \in Bodies, launches \in BOOLEAN : Post(body, launches)
  \/ \E bytes \in Outputs(providerName), newline \in BOOLEAN : ProcWrite(bytes, newline)
  \/ \E n \in 1..Len(stream) : StdoutData(n)
  \/ \E data \in Diagnostics : StderrData(data)
  \/ ProcExit
  \/ \E code \in ExitCodes \cup {SpawnErrno} : ProcClose(code)
  \/ ProcError
  \/ ResClose

Spec == Init /\ [][Next]_vars

\* The event loop runs every handler whose event is pending: the 'data'
\* events of bytes in the pipe, 'error' after a failed spawn, 'close' after
\* the process ended and its pipes are drained.  That a running subprocess
\* ends is the assumption under which the session's termination is stated.
\* Weak fairness of the 'data' events is written out, pendingData being
\* ENABLED <<\E n \in 1..Len(stream) : StdoutData(n)>>_vars.
pendingData == proc \in {"running", "exited"} /\ delivered < Len(stream)

Fairness ==
  /\ \/ []<>(~pendingData)
     \/ []<><<\E n \in 1..Len(stream) : StdoutData(n)>>_vars
  /\ WF_vars(ProcError)
  /\ WF_vars(\E code \in ExitCodes \cup {SpawnErrno} : ProcClose(code))
  /\ WF_vars(ProcExit)

FairSpec == Spec /\ Fairness

TypeOK ==
  /\ phase \in {"idle", "rejected", "threw", "streaming"}
  /\ proc \in {"none", "failed", "errored", "running", "exited", "closed"}
  /\ status \in {0, 200, 400}
  /\ delivered \in 0..Len(stream)
  /\ writes \in 0..MaxWrites

\* ------------------------------------------------------ concurrent requests

\* the state of the one-request specification
single ==
  <<request, process, pipe, buffer, textSent, response, console, uncaught>>

\* bindings shared by every invocation of the handler (module-level lets)
sharedScope(q) == "first"

\* `let buffer` and `let textSent` are declared in the body of the request
\* handler: every invocation has its own
scopeOf(q) == q

\* the requests that run concurrently, and what their tools write to stdout
Accepted == {body \in Bodies : body.systemPrompt # ""}
Stdout(name) ==
  CASE name = "claude" -> {<<"{", "A", "h", "}", LF>>}
    [] name = "codex" -> {<<"[", "x">>, <<"{", "I", "h", "}", LF, "[">>}
    [] OTHER -> {<<"h", "i">>}

argvOf(body) ==
  spawnArgs(CLI_TOOLS[body.provider],
            buildArgs(body.provider, body.model, body.systemPrompt),
            buildPrompt(CLI_TOOLS[body.provider].embedSystemPrompt,
                        body.systemPrompt, body.messages.items))

\* api.post('/chat') for request q, whose tool will write out
Chat(q, body, out) ==
  /\ sessions[q].proc = "none"
  /\ sessions' = [sessions EXCEPT ![q] =
                    [proc |-> "running", providerName |-> body.provider,
                     argv |-> argvOf(body), stream |-> out,
                     chunks |-> <<>>, calls |-> <<>>]]
  /\ env' = [env EXCEPT ![scopeOf(q)] = NoScope]
  /\ UNCHANGED single

\* the bytes of q's tool that no 'data' event has delivered
pending(q, done) ==
  SubSeq(sessions[q].stream, done + 1, Len(sessions[q].stream))

RECURSIVE total(_)
total(chunks) ==
  IF chunks = <<>> THEN 0 ELSE Len(chunks[1]) + total(Tail(chunks))

\* proc.stdout 'data' of request q: the handler works on its bindings
Data(q, n) ==
  /\ sessions[q].proc \in {"running", "exited"}
  /\ n <= Len(pending(q, total(sessions[q].chunks)))
  /\ \E chunk \in {SubSeq(pending(q, total(sessions[q].chunks)), 1, n)} :
     \E r \in {onStdoutData(CLI_TOOLS[sessions[q].providerName],
                             env[scopeOf(q)].buffer,
                             env[scopeOf(q)].textSent, chunk)} :
        /\ env' = [env EXCEPT ![scopeOf(q)] =
                     [buffer |-> r.buffer, textSent |-> r.textSent]]
        /\ sessions' = [sessions EXCEPT
                          ![q].chunks = Append(@, chunk),
                          ![q].calls = @ \o r.out]
  /\ UNCHANGED single

\* q's tool ends
Exit(q) ==
  /\ sessions[q].proc = "running"
  /\ sessions' = [sessions EXCEPT ![q].proc = "exited"]
  /\ UNCHANGED <<single, env>>

\* proc 'close' of request q
Close(q) ==
  /\ sessions[q].proc = "exited"
  /\ pending(q, total(sessions[q].chunks)) = <<>>
  /\ \E r \in {onClose(CLI_TOOLS[sessions[q].providerName],
                        env[scopeOf(q)].buffer, env[scopeOf(q)].textSent)} :
        /\ env' = [env EXCEPT ![scopeOf(q)].textSent = r.textSent]
        /\ sessions' = [sessions EXCEPT
                          ![q].proc = "closed",
                          ![q].calls = @ \o r.out]
  /\ UNCHANGED single

NextConcurrent ==
  \/ \E q \in Requests, body \in Accepted :
       \E out \in Stdout(body.provider) : Chat(q, body, out)
  \/ \E q \in Requests, n \in 1..6 : Data(q, n)
  \/ \E q \in Requests : Exit(q)
  \/ \E q \in Requests : Close(q)

SpecConcurrent == Init /\ [][NextConcurrent]_vars

\* ------------------------------------------------------------------ claims

isText(e) == e.kind = "text"
isError(e) == e.kind = "error"
isDone(e) == e.kind = "done"

texts(events) == SelectSeq(events, isText)
errors(events) == SelectSeq(events, isError)
markers(events) == Len(SelectSeq(events, isDone))

\* the 'error' handler ran: the spawn failed
spawnFailed == <<"spawn error", providerName>> \in console
\* the session is over: one of the two handlers that end the response ran
over == proc \in {"errored", "closed"}

\* C1: the terminal marker is written to the response exactly once, on every
\* exit path: never twice, and once when the session is over.
C1_MarkerExactlyOnce ==
  /\ markers(calls) <= 1
  /\ over => markers(calls) = 1

\* C2: the marker is the last event: once res.end() was called, no handler
\* writes to the response again.
C2_MarkerIsLast == [][ended => calls' = calls]_vars

\* the tool has a parser (JSON mode) and the request reached spawn
jsonMode == phase = "streaming" /\ ~isPlainText(cliTool)

\* what the stdout handler and the flush write when `bytes` arrives as one
\* chunk
flushed1(tool, d) == d.out \o flush(tool, d.buffer, d.textSent).out
singleChunk(tool, bytes) ==
  flushed1(tool, onStdoutData(tool, <<>>, FALSE, bytes))

\* C3: boundary invariance.  When the process has closed, the text fragments
\* written are those of the whole stream arriving as a single chunk.  Stated
\* for the tools with a parser; in plain-text mode every chunk is a fragment
\* of its own.
C3_BoundaryInvariance ==
  (jsonMode /\ proc = "closed" /\ ~spawnFailed)
    => texts(calls) = texts(singleChunk(cliTool, stream))

\* C4: a response stream that closes while the subprocess is running sends
\* it SIGTERM, and a session sends SIGTERM at most once.
C4_SigtermExactlyOnce ==
  /\ [](sigterms <= 1 /\ kills <= 1)
  /\ [][(~closed /\ closed' /\ proc = "running")
          => (sigterms = 0 /\ sigterms' = 1 /\ kills' = 1 /\ killed')]_vars

\* the client disconnected from a running subprocess, which was signalled
\* once, and the session went on to its end
C4_Witness == closed /\ sigterms = 1 /\ proc = "closed"

\* the request fails validation: no usable messages, or a provider name that
\* is not registered
noMessages(body) ==
  ~body.messages.truthy \/ ~body.messages.isArray \/ body.messages.items = <<>>
unregistered(body) ==
  or(body.provider, or(body.tool, "claude")) \notin {"claude", "codex", "gemini"}

\* C5: a request that fails validation is answered 400 and never reaches
\* spawn: no subprocess, no event-stream headers set or flushed; for an
\* unknown provider the body carries the registered names.
C5_InvalidRequestRejected ==
  [][\A body \in Bodies, launches \in BOOLEAN :
       (Post(body, launches) /\ (noMessages(body) \/ unregistered(body)))
         => /\ status' = 400
            /\ proc' = "none"
            /\ headers' = {}
            /\ ~flushed'
            /\ ~noMessages(body) =>
                 json'.available = <<"claude", "codex", "gemini">>]_vars

\* C6: after a failed spawn the client receives one error event that names
\* the provider and asks whether it is installed, then the marker; no text
\* event is written in that session, and nothing before the 'error' event.
C6_SpawnFailure ==
  /\ proc = "failed" => calls = <<>>
  /\ spawnFailed =>
       /\ wire = <<[kind |-> "error",
                    body |-> <<"Failed to start ", providerName,
                               " CLI. Is it installed?">>],
                   [kind |-> "done", body |-> <<"[DONE]">>]>>
       /\ Len(errors(calls)) = 1
       /\ texts(calls) = <<>>

\* a failed spawn whose 'error' and 'close' events were both handled
C6_Witness == spawnFailed /\ proc = "closed"

\* what the stdout handler would do with the lines of every chunk that can
\* arrive next: one record per line that reaches the parser
nextChunks ==
  IF jsonMode /\ proc \in {"running", "exited"}
  THEN {SubSeq(stream, delivered + 1, delivered + n) :
          n \in 1..(Len(stream) - delivered)}
  ELSE {}
logOf(data) == onStdoutData(cliTool, buffer, textSent, data).log
nextLines ==
  UNION {{logOf(data)[i] : i \in 1..Len(logOf(data))} : data \in nextChunks}

looksLikeJSON(line) ==
  startsWith(trim(line), "{") \/ startsWith(trim(line), "[")

\* C7 as stated: a line on which parseStream throws is dropped (no event
\* written) if its trimmed form begins with { or [, and otherwise forwarded
\* as one fragment, the line followed by a newline.
C7_FallbackAsStated ==
  \A l \in nextLines :
    l.threw =>
      IF looksLikeJSON(l.line)
      THEN l.parsed \o l.caught = <<>>
      ELSE l.parsed \o l.caught =
             <<[kind |-> "text", body |-> l.line \o <<LF>>]>>

\* C7 as amended: for a line on which parseStream throws, the catch branch
\* writes nothing if the trimmed line begins with { or [ (what the parser
\* emitted before it threw stays written), and otherwise the line yields
\* exactly one fragment, the trimmed line followed by a newline.
C7_Fallback ==
  \A l \in nextLines :
    l.threw =>
      IF looksLikeJSON(l.line)
      THEN l.caught = <<>>
      ELSE l.parsed \o l.caught =
             <<[kind |-> "text", body |-> trim(l.line) \o <<LF>>]>>

\* the line " w", no JSON, was forwarded as "w\n"
C7_Witness ==
  /\ jsonMode
  /\ stream = <<SP, "w", LF>>
  /\ delivered = 3
  /\ calls # <<>>
  /\ calls[1] = [kind |-> "text", body |-> <<"w", LF>>]

\* the shapes each parser recognizes, by the tag of the JSON text
recognizedTags(parser) ==
  IF parser = "claude" THEN {"A", "P", "D"} ELSE {"I"}
recognized(parser, line) ==
  Len(trim(line)) >= 3 /\ trim(line)[2] \in recognizedTags(parser)

\* C8: a line that is valid JSON and matches none of the provider's shapes
\* produces no fragment and is no parse failure.
C8_UnrecognizedIsSkipped ==
  \A l \in nextLines :
    (JSONparse(l.line).ok /\ ~recognized(cliTool.parseStream, l.line))
      => (~l.threw /\ l.parsed = <<>> /\ l.caught = <<>>)

\* C9: only the 'error' handler writes an error event; a 'close', whatever
\* the exit code, adds text events and the marker.
C9_ExitIsNoError ==
  [][/\ errors(calls') # errors(calls) => (proc = "failed" /\ proc' = "errored")
     /\ (proc' = "closed" /\ proc # "closed") =>
          /\ Len(calls') > Len(calls)
          /\ calls'[Len(calls')].kind = "done"
          /\ \A i \in (Len(calls) + 1)..(Len(calls') - 1) :
               calls'[i].kind = "text"]_vars

\* a process that ran and exited with a failure code: logged, no error event
C9_Witness ==
  /\ proc = "closed"
  /\ <<"exited with code", providerName, "1">> \in console
  /\ errors(calls) = <<>>

\* C10: a stderr 'data' event writes nothing to the response and leaves the
\* line buffer, textSent and the process handle as they were.
C10_StderrNotForwarded ==
  [][\A data \in Diagnostics :
       StderrData(data) =>
         UNCHANGED <<calls, wire, ended, buffer, textSent, proc, handle,
                     killed>>]_vars

\* a diagnostic was logged
C10_Witness == <<"stderr", providerName, "w">> \in console

\* how often the piece x occurs in the strings of a sequence of strings
occurrences(strings, x) ==
  Cardinality({<<i, j>> \in (1..Len(strings)) \X (1..8) :
                 j <= Len(strings[i]) /\ strings[i][j] = x})

\* C11: an accepted request with a system prompt hands it to the subprocess
\* exactly once, counting argv and stdin together: in the prompt of a tool
\* that embeds it, after the flag of one that does not.
C11_SystemPromptOnce ==
  [][\A body \in Bodies, launches \in BOOLEAN :
       (/\ Post(body, launches)
        /\ phase' = "streaming"
        /\ body.systemPrompt # "")
       => /\ occurrences(argv' \o stdin'.writes, body.systemPrompt) = 1
          /\ IF cliTool'.embedSystemPrompt
             THEN /\ prompt'[1] = "System instructions: "
                  /\ prompt'[2] = body.systemPrompt
                  /\ \A i \in 1..Len(argv') :
                       argv'[i] # <<body.systemPrompt>>
             ELSE /\ occurrences(<<prompt'>>, body.systemPrompt) = 0
                  /\ \E i \in 1..(Len(argv') - 1) :
                       /\ argv'[i] = <<"--system-prompt">>
                       /\ argv'[i + 1] = <<body.systemPrompt>>]_vars

\* codex read its system prompt from the prompt on stdin and ran to the end
C11_Witness ==
  /\ providerName = "codex"
  /\ proc = "closed"
  /\ stdin.writes # <<>>
  /\ SubSeq(stdin.writes[1], 1, 2) = <<"System instructions: ", "Be brief">>
  /\ occurrences(argv \o stdin.writes, "Be brief") = 1

\* the bytes res.write puts on the wire for a text (UTF-8)
RECURSIVE encodeUTF8(_)
encodeUTF8(text) ==
  IF text = <<>> THEN <<>>
  ELSE (CASE text[1] = EAcute -> <<Lead, Cont>>
          [] text[1] = Replacement -> <<"0xEF", "0xBF", "0xBD">>
          [] OTHER -> <<text[1]>>)
       \o encodeUTF8(Tail(text))

plainMode == phase = "streaming" /\ isPlainText(cliTool)

\* C12: for a plain-text tool every stdout chunk is written as one text
\* event that carries the chunk's bytes, nothing is held in the buffer, and
\* the 'close' handler adds the marker only.
C12_PlainChunksVerbatim ==
  [][plainMode =>
       /\ \A n \in 1..Len(stream) :
            StdoutData(n) =>
              /\ Len(calls') = Len(calls) + 1
              /\ SubSeq(calls', 1, Len(calls)) = calls
              /\ calls'[Len(calls')].kind = "text"
              /\ encodeUTF8(calls'[Len(calls')].body)
                   = SubSeq(stream, delivered + 1, delivered + n)
              /\ buffer' = <<>>
       /\ (proc # "closed" /\ proc' = "closed") =>
            calls' = Append(calls, [kind |-> "done", body |-> <<"[DONE]">>])]_vars

\* what a step appended to the res.write() calls
written == SubSeq(calls', Len(calls) + 1, Len(calls'))

\* the last-resort fragment of a residual
rawResidual(buf) == [kind |-> "text", body |-> trim(buf)]

\* what the 'close' handler may write for a residual on which the parser
\* did r: its fragments, then the raw residual or nothing, then the marker
drained(buf, sent, r, fallback) ==
  /\ written = [i \in 1..Len(r.emits) |->
                  [kind |-> "text", body |-> r.emits[i]]]
               \o fallback \o <<[kind |-> "done", body |-> <<"[DONE]">>]>>
  /\ fallback # <<>> => (r.threw /\ ~sent /\ r.emits = <<>>)

\* C13: the 'close' handler of a JSON-mode tool writes, for a residual that
\* is not blank, the fragments the tool's parser extracts from it, then the
\* raw trimmed residual only if the parser threw, extracted nothing and no
\* fragment was sent before, then the marker; for a blank residual the marker
\* only; and after it nothing is written.
C13_ResidualDrainedOnce ==
  [][jsonMode =>
       /\ (proc # "closed" /\ proc' = "closed") =>
            IF trim(buffer) = <<>>
            THEN written = <<[kind |-> "done", body |-> <<"[DONE]">>]>>
            ELSE \E fallback \in {<<>>, <<rawResidual(buffer)>>} :
                   drained(buffer, textSent, parseStream(cliTool, buffer),
                           fallback)
       /\ proc = "closed" => calls' = calls]_vars

\* codex ended after the unterminated line `[x`, forwarded as the only text
C13_Witness ==
  /\ providerName = "codex"
  /\ proc = "closed"
  /\ stream = <<"[", "x">>
  /\ calls = <<[kind |-> "text", body |-> <<"[", "x">>],
               [kind |-> "done", body |-> <<"[DONE]">>]>>

\* C14: a response 'close' that comes after the process ended (exited by
\* itself, closed, or failed to start) may call proc.kill, but sends no
\* signal, leaves proc.killed and the session's progress as they were, and
\* the session still closes.
C14_KillAfterExitIsNoOp ==
  [][(~closed /\ closed' /\ proc \in {"exited", "errored", "closed"}) =>
       /\ sigterms' = sigterms
       /\ killed' = killed
       /\ kills' = kills + (IF killed THEN 0 ELSE 1)
       /\ UNCHANGED <<phase, proc, handle, calls, wire, ended, buffer,
                      textSent, console>>]_vars

\* the response closed between the process's exit and its 'close' event:
\* proc.kill was called and no signal was sent
C14_Witness ==
  /\ closed
  /\ proc = "exited"
  /\ kills = 1
  /\ sigterms = 0
  /\ ~killed

\* a request that runs alone: the handler's bindings and the events written
\* after the chunks, from `let buffer = ''` and `let textSent = false`
afterChunk(d, r) ==
  [buffer |-> r.buffer, textSent |-> r.textSent, out |-> d.out \o r.out]
RECURSIVE alone(_, _, _)
alone(tool, d, chunks) ==
  IF chunks = <<>> THEN d
  ELSE alone(tool,
             afterChunk(d, onStdoutData(tool, d.buffer, d.textSent, chunks[1])),
             Tail(chunks))
afterClose(d, r) ==
  [buffer |-> d.buffer, textSent |-> r.textSent, out |-> d.out \o r.out]
aloneClosed(tool, d) == afterClose(d, onClose(tool, d.buffer, d.textSent))
ranAlone(tool, chunks, isClosed) ==
  IF isClosed
  THEN aloneClosed(tool, alone(tool, [buffer |-> <<>>, textSent |-> FALSE,
                                      out |-> <<>>], chunks))
  ELSE alone(tool, [buffer |-> <<>>, textSent |-> FALSE, out |-> <<>>],
             chunks)
sameAsAlone(q, a) ==
  /\ env[scopeOf(q)].buffer = a.buffer
  /\ env[scopeOf(q)].textSent = a.textSent
  /\ sessions[q].calls = a.out

RECURSIVE completeLines(_, _)
completeLines(text, line) ==
  IF text = <<>> THEN <<>>
  ELSE IF text[1] = LF THEN <<line>> \o completeLines(Tail(text), <<>>)
  ELSE completeLines(Tail(text), Append(line, text[1]))
RECURSIVE incomplete(_, _)
incomplete(text, line) ==
  IF text = <<>> THEN line
  ELSE IF text[1] = LF THEN incomplete(Tail(text), <<>>)
  ELSE incomplete(Tail(text), Append(line, text[1]))
nonBlank(line) == \E i \in 1..Len(line) : line[i] \notin WhiteSpace

\* the lines a handler invocation passed to the parser and the events it
\* wrote for them, in the order of its log
RECURSIVE parsedLines(_)
parsedLines(log) ==
  IF log = <<>> THEN <<>> ELSE <<log[1].line>> \o parsedLines(Tail(log))
RECURSIVE lineEvents(_)
lineEvents(log) ==
  IF log = <<>> THEN <<>>
  ELSE log[1].parsed \o log[1].caught \o lineEvents(Tail(log))

dispatched(text, log) ==
  /\ parsedLines(log) = SelectSeq(completeLines(text, <<>>), nonBlank)
  /\ written = lineEvents(log)
  /\ buffer' = incomplete(text, <<>>)

\* C16: for a JSON-mode tool the buffer never holds a line feed and is empty
\* exactly when the delivered bytes end with one (or there are none), and
\* every 'data' event passes the non-blank complete lines of buffer + chunk
\* to the parser, each once and in order, writes their events in that
\* order and retains what follows the last line feed (a step that delivers
\* bytes is a 'data' event).
C16_LinesInOrder ==
  /\ [](jsonMode =>
          /\ \A i \in 1..Len(buffer) : buffer[i] # LF
          /\ (buffer = <<>>) = (delivered = 0 \/ stream[delivered] = LF))
  /\ [][(jsonMode /\ delivered' > delivered) =>
          dispatched(buffer \o toString(SubSeq(stream, delivered + 1,
                                               delivered')),
                     logOf(SubSeq(stream, delivered + 1, delivered')))]_vars

\* claude wrote two lines, an assistant message whose second block is null
\* and one with the text U+00E9; their texts were written in that order
C16_Witness ==
  /\ providerName = "claude"
  /\ proc = "running"
  /\ stream = <<"{", "P", "h", "}", LF, "{", "A", Lead, Cont, "}", LF>>
  /\ delivered = Len(stream)
  /\ buffer = <<>>
  /\ calls = <<[kind |-> "text", body |-> <<"h">>],
               [kind |-> "text", body |-> <<EAcute>>]>>

\* C17: no write to the response, whether made after the client went away
\* or after res.end(), makes the response emit an 'error' that nothing
\* handles.
C17_LateWriteIsNoOp == ~uncaught

\* the session states and their order: spawning ends running or failed, a
\* failed spawn is reported, a running process ends, and the 'close'
\* handler drains and closes
Lifecycle ==
  {<<"none", "running">>, <<"none", "failed">>, <<"failed", "errored">>,
   <<"running", "exited">>, <<"exited", "closed">>, <<"errored", "closed">>}

\* C18: a session moves along the lifecycle only; a running subprocess whose
\* client is gone has been sent SIGTERM; and, the subprocess failing to
\* start or ending, every accepted session becomes closed, its marker
\* written and its response ended.
C18_ReachesClosed ==
  /\ [][proc' # proc => <<proc, proc'>> \in Lifecycle]_vars
  /\ []((closed /\ proc = "running") => (sigterms = 1 /\ killed))
  /\ (phase = "streaming") ~>
       (proc = "closed" /\ ended /\ markers(calls) >= 1)

\* the client went away while the tool ran; the tool was signalled, its
\* output drained and the session closed
C18_Witness ==
  /\ proc = "closed"
  /\ closed
  /\ killed
  /\ ended
  /\ stream # <<>>
  /\ delivered = Len(stream)
  /\ calls[Len(calls)] = [kind |-> "done", body |-> <<"[DONE]">>]

\* how often the string x is among the strings of a sequence
among(strings, x) == Cardinality({i \in 1..Len(strings) : strings[i] = x})

\* C19: an accepted request hands the prompt to the subprocess by one
\* route: for an arg-mode tool as the last argument, after -p, with nothing
\* written to stdin; for a stdin-mode tool in one write to stdin, which is
\* ended in the request handler, before any output is read, and not in argv.
C19_PromptByOneRoute ==
  /\ [][\A body \in Bodies, launches \in BOOLEAN :
          (Post(body, launches) /\ phase' = "streaming") =>
            /\ prompt' # <<>>
            /\ among(argv' \o stdin'.writes, prompt') = 1
            /\ delivered' = 0
            /\ IF cliTool'.inputMode = "arg"
               THEN /\ argv'[Len(argv')] = prompt'
                    /\ argv'[Len(argv') - 1] = <<"-p">>
                    /\ stdin' = [writes |-> <<>>, ended |-> FALSE]
               ELSE /\ stdin' = [writes |-> <<prompt'>>, ended |-> TRUE]
                    /\ among(argv', prompt') = 0]_vars
  /\ [][phase = "streaming" => UNCHANGED <<argv, stdin, prompt>>]_vars

\* gemini got its prompt as the last argument and ran to the end with its
\* stdin untouched
C19_Witness ==
  /\ providerName = "gemini"
  /\ proc = "closed"
  /\ stream # <<>>
  /\ argv[Len(argv)] = prompt
  /\ stdin.writes = <<>>

\* C20 as stated: textSent is true exactly when a text event has been
\* written; it is never reset.
C20_TextSentAsStated ==
  /\ [](textSent = (texts(calls) # <<>>))
  /\ [][textSent => textSent']_vars

\* C20 as amended: textSent starts false and is never reset; when it is true
\* a text event has been written; and a text event written leaves it false
\* only if it is the raw residual that the 'close' handler of a JSON-mode
\* tool wrote as a last resort (after which textSent is not read again).
C20_TextSent ==
  /\ [](/\ phase = "idle" => ~textSent
        /\ textSent => texts(calls) # <<>>
        /\ (texts(calls) # <<>> /\ ~textSent) =>
             /\ jsonMode
             /\ proc = "closed"
             /\ texts(calls) = <<rawResidual(buffer)>>)
  /\ [][textSent => textSent']_vars

\* codex ended after the unterminated line ` w`: the residual was written
\* as the only text and textSent stayed false
C20_Witness ==
  /\ providerName = "codex"
  /\ proc = "closed"
  /\ ~textSent
  /\ stream = <<SP, "w">>
  /\ calls = <<[kind |-> "text", body |-> <<"w">>],
               [kind |-> "done", body |-> <<"[DONE]">>]>>

====
